---- MODULE Spec2Model ----
(***************************************************************************)
(* hutch_python.namespace: class_namespace (type-filtered namespace with   *)
(* recursive expansion of composite devices) and metadata_namespace (tree  *)
(* of namespaces keyed by metadata or by '_'-separated name segments).     *)
(*                                                                         *)
(* A dict is a sequence of [name, obj] entries with distinct names         *)
(* (insertion order is iteration order).  An IterableNamespace is the same *)
(* ordered store reached through attributes.                               *)
(***************************************************************************)
EXTENDS Integers, Sequences, FiniteSets, TLC

\* ------------------------------------------------------------- bounds
\* Largest number of bindings in the scope given to class_namespace.
MaxScope == 2
\* Largest number of bindings in the scope given to metadata_namespace.
MaxMdScope == 2

\* ------------------------------------------------------ object universe
\* The objects a scope may hold.  A and B are composites (ophyd Devices,
\* A of the subclass Motor), S is a named non-composite (a Signal), F is a
\* plain function and K an instance of a class that defines __call__.
Objs == {"A", "B", "S", "F", "K"}

NoName == "<no name attribute>"

\* obj.name, the canonical name (functions and K have no such attribute).
ObjName ==
  [o \in Objs |->
     CASE o = "A" -> "a" [] o = "B" -> "b" [] o = "S" -> "s"
       [] OTHER -> NoName]

\* type(obj)
ObjClass ==
  [o \in Objs |->
     CASE o = "A" -> "Motor" [] o = "B" -> "Device" [] o = "S" -> "Signal"
       [] o = "F" -> "function" [] OTHER -> "Callable"]

Classes == {"object", "Device", "Motor", "Signal", "function", "Callable"}

\* The method resolution order of each class: the class and its bases.
Mro ==
  [c \in Classes |->
     CASE c = "Motor" -> {"Motor", "Device", "object"}
       [] c = "object" -> {"object"}
       [] OTHER -> {c, "object"}]

\* isinstance(obj, cls) for a class cls
isinstance(o, c) == c \in Mro[ObjClass[o]]

\* inspect.isfunction(obj): an instance of types.FunctionType
isfunctionCallable(o) == ObjClass[o] \in {"function", "Callable"}
isfunction(o) == ObjClass[o] = "function"

\* The objects that carry component_names (getattr(obj, 'component_names',
\* []) is empty for the others), and the objects a component may be.
Composites == {o \in Objs : isinstance(o, "Device")}
CompTargets == {"A", "B", "S", "F"}
CompOrder == <<"A", "B", "S", "F">>

RECURSIVE SeqOfSet(_, _)
SeqOfSet(order, S) ==
  IF order = <<>> THEN <<>>
  ELSE IF Head(order) \in S THEN <<Head(order)>> \o SeqOfSet(Tail(order), S)
  ELSE SeqOfSet(Tail(order), S)

\* The component lists a composite may declare: the sub-objects reached by
\* getattr(obj, comp_name) for comp_name in obj.component_names.  Any
\* target may be listed, the composite itself and its ancestors included.
CompSeqs == {SeqOfSet(CompOrder, S) : S \in SUBSET CompTargets}

\* ------------------------------------------------------------ dict helpers
Keys(d) == {d[i].name : i \in DOMAIN d}
Lookup(d, n) == d[CHOOSE i \in DOMAIN d : d[i].name = n].obj
Binding(n, o) == [name |-> n, obj |-> o]
\* d[n] = o
DictSet(d, n, o) ==
  IF n \in Keys(d)
  THEN [i \in DOMAIN d |-> IF d[i].name = n THEN Binding(n, o) ELSE d[i]]
  ELSE Append(d, Binding(n, o))

\* ------------------------------------------------------------ the inputs
\* Bindings a resolved scope may hold: an object under its canonical name,
\* under another name ("x"), or under a name that another object carries
\* as its canonical name ("b" bound to the signal S).
ScopeEntries ==
  { Binding("a", "A"), Binding("x", "A"), Binding("b", "B"),
    Binding("b", "S"), Binding("s", "S"), Binding("f", "F"),
    Binding("k", "K") }

RECURSIVE DictsUpTo(_, _)
DictsUpTo(entries, n) ==
  IF n = 0 THEN {<<>>}
  ELSE LET S == DictsUpTo(entries, n - 1)
       IN  S \cup { Append(s, e) :
                    <<s, e>> \in { p \in S \X entries :
                                     /\ Len(p[1]) = n - 1
                                     /\ p[2].name \notin Keys(p[1]) } }

Scopes == DictsUpTo(ScopeEntries, MaxScope)

\* The cls argument: a type, or a string.
TypeArg(c) == [k |-> "type", v |-> c]
StrArg(s) == [k |-> "str", v |-> s]
NonType(s) == [k |-> "value", v |-> s]
Requests ==
  { TypeArg("Motor"), StrArg("function"), StrArg("ophyd.Device"),
    StrArg("no.such.Type"), StrArg("Devise"), StrArg("len") }

\* What importlib can import and what the names visible to eval are.
ImportTable == [p \in {"ophyd.Device"} |-> TypeArg("Device")]
EvalTable == [p \in {"object", "len"} |->
                IF p = "object" THEN TypeArg("object") ELSE NonType("len")]
Dotted == {"ophyd.Device", "no.such.Type"}

\* -------------------------------------------- inputs of metadata_namespace
\* A string is the sequence of its '_'-separated segments: "tst_det_1" is
\* <<"tst", "det", "1">>, the empty string is <<"">>.
EmptyStr == <<"">>

\* str.lower() on a segment
LowerTok(t) == CASE t = "TST" -> "tst" [] t = "DET" -> "det" [] OTHER -> t

\* A metadata value: None, a string or something else (an int).
NoneV == [t |-> "none", s |-> ""]
StrV(x) == [t |-> "str", s |-> x]
IntV(x) == [t |-> "int", s |-> x]

Fields == {"beamline", "stand", "kind"}

\* The requested field lists.
FieldLists ==
  { <<>>, <<"beamline">>, <<"beamline", "stand">>, <<"stand", "beamline">>,
    <<"beamline", "stand", "kind">> }

\* The values a field of an md record may hold.
MdValues == {NoneV, StrV("TST"), StrV("DET")}

Record(b, s) ==
  [f \in {"beamline", "stand"} |-> IF f = "beamline" THEN b ELSE s]

\* The md records an object may expose: beamline and stand set to any of
\* the values, or one of them to an int; no record has the field kind.
MdRecords ==
  {Record(b, s) : b \in MdValues, s \in MdValues}
    \cup {Record(IntV("5"), StrV("DET")), Record(StrV("TST"), IntV("5"))}

NoRecord == [f \in {} |-> NoneV]
WithMd(r) == [hasMd |-> TRUE, rec |-> r]
WithoutMd == [hasMd |-> FALSE, rec |-> NoRecord]

MdNames == { <<"tst", "det", "1">>, <<"TST", "det">>, <<"det">>, <<"tst">> }

MdEntries ==
  { Binding(n, o) : n \in MdNames, o \in {WithMd(r) : r \in MdRecords} \cup {WithoutMd} }

MdScopes == DictsUpTo(MdEntries, MaxMdScope)

\* ------------------------------------------------------------- utils.py
Raised(e) == [ok |-> FALSE, val |-> NonType(e)]
Returned(v) == [ok |-> TRUE, val |-> v]

\* find_object: import the module path and take the attribute.
find_object(path) ==
  IF path \in DOMAIN ImportTable THEN Returned(ImportTable[path])
  ELSE Raised("ImportError")

\* find_class: a dotted path is imported, anything else is eval'ed.
find_class(path) ==
  IF path \in Dotted THEN find_object(path)
  ELSE IF path \in DOMAIN EvalTable THEN Returned(EvalTable[path])
  ELSE Raised("NameError")

\* extract_objs(scope=scope, stack_offset=1): the resolved name -> object
\* mapping of the scope specification.
extract_objs(scope) == scope

\* ------------------------------------------------------------- the state
VARIABLES
  pc,          \* class_namespace: "idle", "expand", "done", "raised"
  request,     \* the cls argument as passed
  cls,         \* the local cls (rebound to the resolved type)
  scope_objs,  \* the pool: the dict accumulate adds to
  items,       \* scope_objs.copy(), what the expansion loop iterates
  k,           \* position of the expansion loop in items
  cache,       \* the set of visited objects
  stack,       \* the active accumulate calls, innermost last
  comps,       \* the component lists read so far
  known,       \* the objects whose component list has been read
  visits,      \* how often accumulate's body ran for each object
  steps,       \* steps taken by the call
  class_space, \* the namespace returned
  log,         \* the log records emitted
  exc,         \* the exception that reached the caller, or "none"
  mpc,         \* metadata_namespace: "idle", "loop", "done", "raised"
  md,          \* the md argument, the list of field names
  mscope,      \* the resolved scope of metadata_namespace
  mi,          \* position of the loop in mscope
  spaces,      \* the IterableNamespaces created, spaces[1] is metadata_space
  oattrs       \* the attributes the call has set on each scope object

classVars == <<pc, request, cls, scope_objs, items, k, cache, stack, comps,
               known, visits, steps, class_space>>
mdVars == <<mpc, md, mscope, mi, spaces, oattrs>>

vars == <<classVars, mdVars, log, exc>>

LogRec(level, msg, arg) == [level |-> level, msg |-> msg, arg |-> arg]

ClassInit ==
  /\ pc = "idle"
  /\ request = StrArg("")
  /\ cls = StrArg("")
  /\ scope_objs = <<>>
  /\ items = <<>>
  /\ k = 1
  /\ cache = {}
  /\ stack = <<>>
  /\ comps = [o \in Objs |-> <<>>]
  /\ known = {}
  /\ visits = [o \in Objs |-> 0]
  /\ steps = 0
  /\ class_space = <<>>
  /\ log = <<>>
  /\ exc = "none"

MdInit ==
  /\ mpc = "idle"
  /\ md = <<>>
  /\ mscope = <<>>
  /\ mi = 1
  /\ spaces = <<>>
  /\ oattrs = <<>>

\* ------------------------------------------------------ class_namespace
\* The except branch of the type resolution: one error record naming the
\* type, then the traceback at debug level.
ResolveFailedDebugOnly(c, e) == <<LogRec("debug", "traceback", e)>>
ResolveFailed(c, e) ==
  <<LogRec("error", "Type could not be loaded", c.v),
    LogRec("debug", "traceback", e)>>

\* Lines 36-50 and the copy of line 63: set up, resolve a string type, and
\* return the empty namespace when the resolution raises.
class_namespace(c, sc) ==
  /\ request' = c
  /\ scope_objs' = extract_objs(sc)
  /\ class_space' = <<>>
  /\ steps' = steps + 1
  /\ cache' = {}
  /\ UNCHANGED <<k, stack, comps, known, visits, exc, mdVars>>
  /\ LET created == <<LogRec("debug", "Create class_namespace", c.v)>>
         r == find_class(c.v)
     IN  IF c.k = "str" /\ c.v # "function"
         THEN IF r.ok
              THEN /\ cls' = r.val
                   /\ log' = created
                   /\ items' = extract_objs(sc)
                   /\ pc' = "expand"
              ELSE /\ cls' = c
                   /\ log' = created \o ResolveFailed(c, r.val.v)
                   /\ items' = <<>>
                   /\ pc' = "done"
         ELSE /\ cls' = c
              /\ log' = created
              /\ items' = extract_objs(sc)
              /\ pc' = "expand"

\* A call of class_namespace with a cls argument and a scope.
CallClassNamespace ==
  /\ pc = "idle"
  /\ mpc = "idle"
  /\ \E c \in Requests, sc \in Scopes : class_namespace(c, sc)

Frame(o, ph) == [obj |-> o, i |-> 1, phase |-> ph]
Top == stack[Len(stack)]
Pop == SubSeq(stack, 1, Len(stack) - 1)

\* for name, obj in scope_objs.copy().items(): if isinstance(obj, Device):
\* accumulate(obj, scope_objs, cache)
ExpandNext ==
  /\ pc = "expand"
  /\ stack = <<>>
  /\ k <= Len(items)
  /\ k' = k + 1
  /\ steps' = steps + 1
  /\ stack' = IF isinstance(items[k].obj, "Device")
              THEN <<Frame(items[k].obj, "check")>> ELSE <<>>
  /\ UNCHANGED <<pc, request, cls, scope_objs, items, cache, comps, known,
                 visits, class_space, log, exc, mdVars>>

\* if obj not in cache
InCacheNever(o, c) == FALSE
InCache(o, c) == o \in c

\* Entry of accumulate: return at once for a visited object, else mark it
\* visited and read its component names.
AccCheck ==
  /\ pc = "expand"
  /\ stack # <<>>
  /\ Top.phase = "check"
  /\ steps' = steps + 1
  /\ IF InCache(Top.obj, cache)
     THEN /\ stack' = Pop
          /\ UNCHANGED <<cache, comps, known, visits>>
     ELSE /\ cache' = cache \cup {Top.obj}
          /\ visits' = [visits EXCEPT ![Top.obj] = @ + 1]
          /\ stack' = [stack EXCEPT ![Len(stack)].phase = "loop"]
          /\ IF Top.obj \in known \/ Top.obj \notin Composites
             THEN UNCHANGED <<comps, known>>
             ELSE /\ \E cs \in CompSeqs : comps' = [comps EXCEPT ![Top.obj] = cs]
                  /\ known' = known \cup {Top.obj}
  /\ UNCHANGED <<pc, request, cls, scope_objs, items, k, class_space, log,
                 exc, mdVars>>

\* for comp_name in component_names: accumulate(getattr(obj, comp_name), ..)
AccRecurse ==
  /\ pc = "expand"
  /\ stack # <<>>
  /\ Top.phase = "loop"
  /\ Top.i <= Len(comps[Top.obj])
  /\ steps' = steps + 1
  /\ stack' = Append([stack EXCEPT ![Len(stack)].i = @ + 1],
                     Frame(comps[Top.obj][Top.i], "check"))
  /\ UNCHANGED <<pc, request, cls, scope_objs, items, k, cache, comps, known,
                 visits, class_space, log, exc, mdVars>>

\* if obj.name not in scope_objs
NameBoundNever(n, d) == FALSE
NameBound(n, d) == n \in Keys(d)

\* After the components: bind the object under its canonical name unless
\* the name is taken; obj.name raises for an object without the attribute.
AccBind ==
  /\ pc = "expand"
  /\ stack # <<>>
  /\ Top.phase = "loop"
  /\ Top.i > Len(comps[Top.obj])
  /\ steps' = steps + 1
  /\ IF ObjName[Top.obj] = NoName
     THEN /\ pc' = "raised"
          /\ exc' = "AttributeError"
          /\ stack' = <<>>
          /\ UNCHANGED scope_objs
     ELSE /\ scope_objs' = IF NameBound(ObjName[Top.obj], scope_objs)
                           THEN scope_objs
                           ELSE DictSet(scope_objs, ObjName[Top.obj], Top.obj)
          /\ stack' = Pop
          /\ UNCHANGED <<pc, exc>>
  /\ UNCHANGED <<request, cls, items, k, cache, comps, known, visits,
                 class_space, log, mdVars>>

\* The test of lines 68-73 for one object; isinstance raises TypeError when
\* its second argument is not a type.
IsMarker(c) == c = StrArg("function")
Include(c, o) ==
  IF IsMarker(c) THEN isfunction(o) ELSE isinstance(o, c.v)

IncludeRecs(sel) ==
  [i \in DOMAIN sel |-> LogRec("debug", "Include in namespace", sel[i].name)]

\* Lines 67-78: the filter over the expanded pool.
Filter ==
  /\ pc = "expand"
  /\ stack = <<>>
  /\ k > Len(items)
  /\ steps' = steps + 1
  /\ IF ~IsMarker(cls) /\ cls.k # "type" /\ scope_objs # <<>>
     THEN /\ pc' = "raised"
          /\ exc' = "TypeError"
          /\ UNCHANGED <<class_space, log>>
     ELSE LET sel == SelectSeq(scope_objs, LAMBDA e : Include(cls, e.obj))
          IN  /\ class_space' = sel
              /\ log' = log \o IncludeRecs(sel)
              /\ pc' = "done"
              /\ exc' = "none"
  /\ UNCHANGED <<request, cls, scope_objs, items, k, cache, stack, comps,
                 known, visits, mdVars>>

ClassNext ==
  \/ CallClassNamespace
  \/ ExpandNext
  \/ AccCheck
  \/ AccRecurse
  \/ AccBind
  \/ Filter

\* --------------------------------------------------- metadata_namespace
Min(a, b) == IF a < b THEN a ELSE b

\* strip_prefix(name, strip_text): drop the leading segment of name (and
\* its separator) when it is strip_text, compared without regard to case;
\* any other name passes through unchanged.
strip_prefix(name, text) ==
  IF LowerTok(name[1]) = LowerTok(text)
  THEN IF Len(name) > 1 THEN Tail(name) ELSE EmptyStr
  ELSE name

\* [getattr(obj.md, filt, None) for filt in md]
MdKeys(rec, fields) ==
  [j \in 1..Len(fields) |->
     IF fields[j] \in DOMAIN rec THEN rec[fields[j]] ELSE NoneV]

\* name.split('_')[:len(md)]
FallbackKeysAll(name, fields) == [j \in 1..Len(name) |-> StrV(name[j])]
FallbackKeys(name, fields) ==
  [j \in 1..Min(Len(fields), Len(name)) |-> StrV(name[j])]

\* '_' in name
HasSeparator(name) == Len(name) > 1

\* raw_keys[0] is None
AbandonNever(raw) == FALSE
Abandon(raw) == raw[1].t = "none"

\* The lowercase loop: strings are lowered, other keys kept.
Lowercase(raw) ==
  [j \in DOMAIN raw |->
     IF raw[j].t = "str" THEN StrV(LowerTok(raw[j].s)) ELSE raw[j]]

\* A reference to a namespace (spaces[n]) or to the scope object of
\* binding n.
NsRef(n) == <<"ns", n>>
ObjRef(n) == <<"obj", n>>
Root == NsRef(1)

AttrsOf(sp, oa, ref) == IF ref[1] = "ns" THEN sp[ref[2]] ELSE oa[ref[2]]
hasattr(sp, oa, ref, key) == key \in Keys(AttrsOf(sp, oa, ref))
getattr(sp, oa, ref, key) == Lookup(AttrsOf(sp, oa, ref), key)
\* setattr(ref, key, val) on the heap w
setattr(w, ref, key, val) ==
  IF ref[1] = "ns"
  THEN [w EXCEPT !.spaces[ref[2]] = DictSet(@, key, val)]
  ELSE [w EXCEPT !.oattrs[ref[2]] = DictSet(@, key, val)]

\* name = strip_prefix(name, key), applied for every consumed key
StripFallbackOnly(name, key, hasMd) ==
  IF hasMd THEN name ELSE strip_prefix(name, key)
StripStep(name, key, hasMd) == strip_prefix(name, key)

\* The walk of lines 128-134 over the keys left, from the state w of the
\* walk: the heap, upper_space (cur), the name and the exception raised.
\* A key that is not a string makes hasattr raise TypeError.
RECURSIVE Walk(_, _, _)
Walk(keys, hasMd, w) ==
  IF keys = <<>> THEN w
  ELSE LET key == Head(keys)
           kn == <<key.s>>
           w1 == IF hasattr(w.spaces, w.oattrs, w.cur, kn) THEN w
                 ELSE setattr([w EXCEPT !.spaces = Append(@, <<>>)],
                              w.cur, kn, NsRef(Len(w.spaces) + 1))
           w2 == [w1 EXCEPT !.name = StripStep(w.name, key.s, hasMd),
                            !.cur = getattr(w1.spaces, w1.oattrs, w.cur, kn)]
       IN  IF key.t = "none" THEN w
           ELSE IF key.t # "str" THEN [w EXCEPT !.exc = "TypeError"]
           ELSE Walk(Tail(keys), hasMd, w2)

\* Lines 101-103.
metadata_namespace(fields, sc) ==
  /\ md' = fields
  /\ mscope' = extract_objs(sc)
  /\ mi' = 1
  /\ spaces' = <<  <<>>  >>
  /\ oattrs' = [i \in DOMAIN sc |-> <<>>]
  /\ log' = <<LogRec("debug", "Create metadata_namespace", "")>>
  /\ mpc' = "loop"
  /\ UNCHANGED <<classVars, exc>>

\* One iteration of the loop of lines 105-135.
MdStep ==
  /\ mpc = "loop"
  /\ mi <= Len(mscope)
  /\ LET name == mscope[mi].name
         o == mscope[mi].obj
         raw == IF o.hasMd THEN MdKeys(o.rec, md) ELSE FallbackKeys(name, md)
         w == Walk(Lowercase(raw), o.hasMd,
                   [spaces |-> spaces, oattrs |-> oattrs, cur |-> Root,
                    name |-> name, exc |-> "none"])
         f == setattr(w, w.cur, w.name, ObjRef(mi))
         added == Append(log, LogRec("debug", "Add to metadata namespace", ""))
     IN  IF ~o.hasMd /\ ~HasSeparator(name)
         THEN /\ mi' = mi + 1
              /\ UNCHANGED <<mpc, spaces, oattrs, log, exc>>
         ELSE IF raw = <<>>
         THEN /\ mpc' = "raised"
              /\ exc' = "IndexError"
              /\ UNCHANGED <<mi, spaces, oattrs, log>>
         ELSE IF Abandon(raw)
         THEN /\ mi' = mi + 1
              /\ UNCHANGED <<mpc, spaces, oattrs, log, exc>>
         ELSE IF w.exc # "none"
         THEN /\ mpc' = "raised"
              /\ exc' = w.exc
              /\ spaces' = w.spaces
              /\ oattrs' = w.oattrs
              /\ log' = added
              /\ UNCHANGED mi
         ELSE /\ spaces' = f.spaces
              /\ oattrs' = f.oattrs
              /\ log' = added
              /\ mi' = mi + 1
              /\ UNCHANGED <<mpc, exc>>
  /\ UNCHANGED <<classVars, md, mscope>>

\* A call of metadata_namespace with a field list and a scope.
CallMetadataNamespace ==
  /\ pc = "idle"
  /\ mpc = "idle"
  /\ \E fields \in FieldLists, sc \in MdScopes : metadata_namespace(fields, sc)

\* return metadata_space
MdReturn ==
  /\ mpc = "loop"
  /\ mi > Len(mscope)
  /\ mpc' = "done"
  /\ UNCHANGED <<classVars, md, mscope, mi, spaces, oattrs, log, exc>>

MdNext ==
  \/ CallMetadataNamespace
  \/ MdStep
  \/ MdReturn

Next == ClassNext \/ MdNext

Init == ClassInit /\ MdInit
Spec == Init /\ [][Next]_vars
ClassSpec == Init /\ [][ClassNext]_vars
MdSpec == Init /\ [][MdNext]_vars

\* ================================================================ claims
Range(f) == {f[i] : i \in DOMAIN f}
Injective(d) == \A i, j \in DOMAIN d : d[i].obj = d[j].obj => i = j

\* Every step of a class_namespace call adds one to steps.  A call makes at
\* most one step per binding of the scope, per component entry of a visited
\* composite, and per accumulate call (its check and its binding), plus the
\* entry and the filter.
StepBound ==
  2 + 3 * (MaxScope + Cardinality(Composites) * Cardinality(CompTargets))

\* C1: composite expansion terminates on every scope and component graph,
\* cyclic or shared: accumulate's body runs at most once per object, the
\* recursion is never deeper than the number of visited objects, the call
\* takes a bounded number of steps, and it can always take a next step
\* until it has returned or raised.
C1_ExpansionTerminates ==
  /\ \A o \in Objs : visits[o] <= 1
  /\ Len(stack) <= Cardinality(cache) + 1
  /\ steps <= StepBound
  /\ pc = "expand" => ENABLED (ExpandNext \/ AccCheck \/ AccRecurse \/ AccBind \/ Filter)

\* A finished expansion over a cycle (A lists B and B lists A) in which a
\* component is also shared.
C1_Witness ==
  /\ pc = "done"
  /\ "B" \in Range(comps["A"])
  /\ "A" \in Range(comps["B"])
  /\ "S" \in Range(comps["A"]) \cap Range(comps["B"])
  /\ visits["A"] = 1 /\ visits["B"] = 1 /\ visits["S"] = 1

\* Whether the import or the eval of a type string fails.
Unresolvable(p) ==
  IF p \in Dotted THEN p \notin DOMAIN ImportTable ELSE p \notin DOMAIN EvalTable

\* The call got past the type resolution: the expansion loop has its copy
\* of the scope (items).
Expanding ==
  /\ pc \in {"expand", "done", "raised"}
  /\ ~(request.k = "str" /\ request.v # "function" /\ Unresolvable(request.v))

\* C2: expansion only adds to the pool: every binding of the scope as it
\* was before the expansion stays in place with the same object, names stay
\* unique, and every binding added is a visited object under its canonical
\* name, a name the scope did not hold.
C2_PureEnrichment ==
  Expanding =>
    /\ Len(items) <= Len(scope_objs)
    /\ \A i \in DOMAIN items : scope_objs[i] = items[i]
    /\ \A i, j \in DOMAIN scope_objs :
         scope_objs[i].name = scope_objs[j].name => i = j
    /\ \A j \in DOMAIN scope_objs :
         j > Len(items) =>
           /\ scope_objs[j].obj \in cache
           /\ scope_objs[j].name = ObjName[scope_objs[j].obj]
           /\ scope_objs[j].name \notin Keys(items)

\* A finished call in which a discovered object carries a canonical name
\* that the scope had bound to another object, and another was added.
C2_Witness ==
  /\ pc = "done"
  /\ Len(scope_objs) > Len(items)
  /\ \E o \in cache :
       /\ ObjName[o] \in Keys(items)
       /\ Lookup(items, ObjName[o]) # o

\* C3: the namespace holds exactly the bindings of the expanded pool whose
\* object is an instance of the resolved type or, for the marker
\* "function", is a plain function; an instance of a class with __call__
\* is not one.
C3_FilterExact ==
  (pc = "done" /\ (cls.k = "type" \/ cls = StrArg("function"))) =>
    /\ Range(class_space) \subseteq Range(scope_objs)
    /\ \A e \in Range(scope_objs) :
         e \in Range(class_space) <=>
           \/ cls.k = "type" /\ cls.v \in Mro[ObjClass[e.obj]]
           \/ cls = StrArg("function") /\ ObjClass[e.obj] = "function"

\* A namespace built for "function" from a pool with a plain function and
\* an instance of a class with __call__.
C3_Witness ==
  /\ pc = "done"
  /\ cls = StrArg("function")
  /\ {"F", "K"} \subseteq {e.obj : e \in Range(scope_objs)}
  /\ class_space # <<>>

ErrorsNaming(p) ==
  {i \in DOMAIN log : log[i].level = "error" /\ log[i].arg = p}

\* C4: a type string (not "function") that cannot be resolved gives the
\* empty namespace and no exception, nothing is expanded or filtered, and
\* exactly one error record is logged, which names the type.
C4_UnresolvableType ==
  (pc # "idle" /\ request.k = "str" /\ request.v # "function"
     /\ Unresolvable(request.v)) =>
    /\ pc = "done"
    /\ exc = "none"
    /\ class_space = <<>>
    /\ cache = {} /\ stack = <<>> /\ k = 1 /\ steps = 1
    /\ \A o \in Objs : visits[o] = 0
    /\ Cardinality(ErrorsNaming(request.v)) = 1
    /\ Cardinality({i \in DOMAIN log : log[i].level = "error"}) = 1

\* A call with a nonsense dotted path over a scope that holds a composite.
C4_Witness ==
  /\ pc = "done"
  /\ request = StrArg("no.such.Type")
  /\ \E e \in Range(scope_objs) : e.obj \in Composites

\* C5: after the expansion of a scope that binds no object twice, no
\* object has two bindings in the pool and none is in the namespace twice.
C5_NoObjectTwice ==
  (Expanding /\ pc = "done" /\ Injective(items)) =>
    /\ Injective(scope_objs)
    /\ Injective(class_space)

\* C6: neither builder raises to its caller, whatever the field list, the
\* metadata values and the components are.
C6_NeverRaises == pc # "raised" /\ mpc # "raised" /\ exc = "none"

\* ---- metadata_namespace
Missing == <<"missing", 0>>

\* The object reached from ref by following the attribute names of path.
RECURSIVE ResolveFrom(_, _, _, _)
ResolveFrom(sp, oa, ref, path) ==
  IF path = <<>> \/ ref = Missing THEN ref
  ELSE IF Head(path) \in Keys(AttrsOf(sp, oa, ref))
  THEN ResolveFrom(sp, oa, Lookup(AttrsOf(sp, oa, ref), Head(path)), Tail(path))
  ELSE Missing

Resolve(sp, oa, path) == ResolveFrom(sp, oa, Root, path)

\* o is an attribute of ref, under the name leaf.
BoundAt(sp, oa, ref, leaf, o) ==
  /\ ref # Missing
  /\ leaf \in Keys(AttrsOf(sp, oa, ref))
  /\ Lookup(AttrsOf(sp, oa, ref), leaf) = o

\* o is an attribute of ref, under some name.
AttributeOf(sp, oa, ref, o) ==
  /\ ref # Missing
  /\ o \in {a.obj : a \in Range(AttrsOf(sp, oa, ref))}

\* The loop is about to process binding mi.
AtItem == mpc = "loop" /\ mi <= Len(mscope)
CurName == mscope[mi].name
CurObj == mscope[mi].obj

\* The values an object's record gives for the requested fields.
FieldValues(rec) ==
  [j \in 1..Len(md) |-> IF md[j] \in DOMAIN rec THEN rec[md[j]] ELSE NoneV]

\* The values before the first None.
RECURSIVE BeforeNone(_)
BeforeNone(vals) ==
  IF vals = <<>> \/ Head(vals).t = "none" THEN <<>>
  ELSE <<Head(vals)>> \o BeforeNone(Tail(vals))

\* The attribute names of a sequence of string values, lowercased.
LowerPath(vals) == [j \in DOMAIN vals |-> <<LowerTok(vals[j].s)>>]

Prefixes(path) == {SubSeq(path, 1, j) : j \in 1..Len(path)}

\* C7: an iteration over an object with a metadata record whose values for
\* the requested fields (at least one) are strings up to the first None:
\* with None first the tree is left as it was; otherwise the iteration
\* completes, the object is an attribute of what the lowercased keys before
\* the first None address, and every namespace it created is addressed by
\* a prefix of those keys (none for a key at or after the None).
C7_StopAtFirstNone ==
  [][ (AtItem /\ CurObj.hasMd /\ md # <<>>
         /\ \A v \in Range(BeforeNone(FieldValues(CurObj.rec))) : v.t = "str") =>
        LET path == LowerPath(BeforeNone(FieldValues(CurObj.rec)))
        IN  IF path = <<>>
            THEN /\ spaces' = spaces /\ oattrs' = oattrs
                 /\ mpc' = "loop" /\ mi' = mi + 1
            ELSE /\ mpc' = "loop" /\ mi' = mi + 1
                 /\ AttributeOf(spaces', oattrs', Resolve(spaces', oattrs', path),
                                ObjRef(mi))
                 /\ \A n \in (Len(spaces) + 1)..Len(spaces') :
                      \E q \in Prefixes(path) :
                        Resolve(spaces', oattrs', q) = NsRef(n)
                 /\ \A n \in DOMAIN spaces, q \in Prefixes(path) :
                      Resolve(spaces, oattrs, q) = NsRef(n) =>
                        Resolve(spaces', oattrs', q) = NsRef(n)
    ]_vars

\* The object with beamline "TST" and no stand, under the fields beamline
\* and stand, sits directly in the first-level namespace tst.
C7_Witness ==
  /\ md = <<"beamline", "stand">>
  /\ \E i \in DOMAIN mscope :
       /\ i < mi
       /\ mscope[i].obj = WithMd(Record(StrV("TST"), NoneV))
       /\ Resolve(spaces, oattrs, << <<"tst">> >>) = NsRef(2)
       /\ AttributeOf(spaces, oattrs, NsRef(2), ObjRef(i))

\* The name left after the first n segments: the rest, or the empty string.
DropSegments(name, n) ==
  IF n < Len(name) THEN SubSeq(name, n + 1, Len(name)) ELSE EmptyStr

\* C8: an iteration over an object without a metadata record: a name
\* without '_' is skipped; otherwise, with n the smaller of the number of
\* fields (at least one) and the number of segments, the object is bound
\* at what the first n segments, lowercased, address, under the name that
\* is left after those n segments.
C8_FallbackNameSplit ==
  [][ (AtItem /\ ~CurObj.hasMd) =>
        IF Len(CurName) = 1
        THEN /\ spaces' = spaces /\ oattrs' = oattrs
             /\ mpc' = "loop" /\ mi' = mi + 1
        ELSE md # <<>> =>
               LET n == Min(Len(md), Len(CurName))
                   path == [j \in 1..n |-> <<LowerTok(CurName[j])>>]
               IN  /\ mpc' = "loop" /\ mi' = mi + 1
                   /\ BoundAt(spaces', oattrs', Resolve(spaces', oattrs', path),
                              DropSegments(CurName, n), ObjRef(mi))
    ]_vars

\* tst_det_1 without a record under two fields: bound as 1 under tst.det.
C8_Witness ==
  /\ Len(md) = 2
  /\ \E i \in DOMAIN mscope :
       /\ i < mi
       /\ mscope[i] = Binding(<<"tst", "det", "1">>, WithoutMd)
       /\ BoundAt(spaces, oattrs,
                  Resolve(spaces, oattrs, << <<"tst">>, <<"det">> >>),
                  <<"1">>, ObjRef(i))

\* C9: the call sets no attribute on an object of the scope: everything
\* it creates and binds hangs on namespaces it created.
C9_ScopeObjectsUntouched == \A i \in DOMAIN oattrs : oattrs[i] = <<>>

\* The iteration binds the current object.
Binds == AtItem /\ mpc' = "loop" /\ <<spaces', oattrs'>> # <<spaces, oattrs>>

\* C10 as claimed: an object with a metadata record is bound under its
\* unmodified bound name at the node its keys address.
C10_MdNameUnmodified ==
  [][ (Binds /\ CurObj.hasMd) =>
        LET path == LowerPath(BeforeNone(FieldValues(CurObj.rec)))
        IN  BoundAt(spaces', oattrs', Resolve(spaces', oattrs', path),
                    CurName, ObjRef(mi))
    ]_vars

\* The name left when, for each key in turn, the leading segment is dropped
\* if it is that key, ignoring case.
RECURSIVE StripAll(_, _)
StripAll(name, keys) ==
  IF keys = <<>> THEN name
  ELSE StripAll(IF LowerTok(name[1]) = LowerTok(Head(keys)[1])
                THEN DropSegments(name, 1) ELSE name,
                Tail(keys))

\* C10 amended: the prefix is stripped in both modes: an object with a
\* metadata record is bound under its bound name less, for each consumed
\* key in turn, the leading segment that equals the key ignoring case.
C10_MdNameStripped ==
  [][ (Binds /\ CurObj.hasMd) =>
        LET path == LowerPath(BeforeNone(FieldValues(CurObj.rec)))
        IN  BoundAt(spaces', oattrs', Resolve(spaces', oattrs', path),
                    StripAll(CurName, path), ObjRef(mi))
    ]_vars

\* The object named tst_det_1 with beamline "TST" is bound as det_1 in tst.
C10_Witness ==
  \E i \in DOMAIN mscope :
    /\ i < mi
    /\ mscope[i].name = <<"tst", "det", "1">>
    /\ mscope[i].obj.hasMd
    /\ BoundAt(spaces, oattrs, Resolve(spaces, oattrs, << <<"tst">> >>),
               <<"det", "1">>, ObjRef(i))

====
